---- MODULE Spec2Model ----
(***************************************************************************)
(* ggentropy (src/src/ggentropy.c), Linux body: the three-strategy chain   *)
(* getrandom(2) -> /dev/urandom -> _sysctl(2) that fills a caller's buffer *)
(* of at most 256 bytes.  Every OS call is one step whose outcome is drawn *)
(* from the outcomes the kernel can report; the caller's buffer records,   *)
(* per byte, which strategy wrote it last.                                 *)
(***************************************************************************)
EXTENDS Integers, Sequences, FiniteSets, TLC

VARIABLES
    SYS_getrandom,        \* build: #ifdef SYS_getrandom (lines 62, 74, 131)
    SYS__sysctl,          \* build: #ifdef SYS__sysctl (lines 66, 104, 215)
    getrandom_available,  \* static bool getrandom_available (line 75)
    open_fds,             \* the process's open descriptors of /dev/urandom
    threads,              \* the threads of the process that call ggentropy
    lens,                 \* the lengths the callers pass
    errnos,               \* the values errno may have when a caller calls
    traced,               \* whether the kind of the kernel's last answer is kept
    pc,                   \* per thread: the line it is about to execute
    n,                    \* per thread: ggentropy's argument n
    buf,                  \* per thread: the caller's buffer, byte -> last writer
    errno,                \* per thread: errno
    saved,                \* per thread: pre_errno / save_errno of the running strategy
    left,                 \* per thread: getentropy_getrandom's left
    i,                    \* per thread: the offset (p - buf in getrandom, i elsewhere)
    fd,                   \* per thread: getentropy_urandom's fd
    view,                 \* per thread: the value of the flag this thread last saw
    result,               \* per thread: what the last call returned
    hist                  \* per thread: what the current call has done so far

vars == <<SYS_getrandom, SYS__sysctl, getrandom_available, open_fds, threads,
          lens, errnos, traced, pc, n, buf, errno, saved, left, i, fd, view, result, hist>>

(***************************************************************************)
(* Bounds of the model.                                                    *)
(***************************************************************************)
MaxLen    == 3   \* callers pass every length 0..MaxLen (and the lengths below)
MaxShort  == 2   \* a short return delivers at most MaxShort bytes
MaxShorts == 2   \* at most MaxShorts short returns in one call
NThreads  == 2   \* threads of the concurrent specification
MTMaxLen  == 1   \* lengths 0..MTMaxLen in the concurrent specification
BufSlack  == 2   \* bytes of the caller's buffer beyond n

(***************************************************************************)
(* Program constants.                                                      *)
(***************************************************************************)
MaxRequest  == 256   \* assert( n <= 256 )
SysctlChunk == 16    \* min(len - i, 16)

NoFd == -1

Strategies == {"getrandom", "urandom", "sysctl"}

\* The errno values the model distinguishes.
ENOSYS == "ENOSYS"
EINTR  == "EINTR"
EAGAIN == "EAGAIN"
EIO    == "EIO"
EntryErrnos == {"EPERM", ENOSYS}

Min(a, b) == IF a < b THEN a ELSE b

(***************************************************************************)
(* The kernel's answers.                                                   *)
(***************************************************************************)
\* getrandom(2) with flags 0: bytes delivered, or -1 with one of these.
GetrandomErrnos == {EINTR, ENOSYS, "EFAULT"}
\* open(2) of /dev/urandom.
OpenErrnos == {EINTR, "ENOENT"}
\* fstat(2) on the descriptor: a character device, another file type, or -1.
FstatAnswers == {"chr", "reg", "fail"}
\* ioctl(fd, RNDGETENTCNT).
IoctlAnswers == {"ok", "fail"}
\* read(2) on the descriptor.
ReadErrnos == {EINTR, EAGAIN, "EBADF"}
\* _sysctl(2).
SysctlErrnos == {EINTR, ENOSYS}

\* A call's history so far (what the claims observe of one call).
NewHist(flag, e, pf) ==
    [ flag0  |-> flag,     \* the availability flag when the call started
      after  |-> pf,       \* the thread's previous call saw getentropy_urandom fail
      errno0 |-> e,        \* errno when the call started
      tried  |-> << >>,    \* the strategies entered, in order
      ops    |-> {},       \* the OS calls made
      first  |-> "none",   \* the first OS call made
      intr   |-> {},       \* the OS calls that were interrupted (EINTR, EAGAIN)
      aErr   |-> "none",   \* errno with which getentropy_getrandom returned -1
      dev    |-> "none",   \* what fstat answered about the opened file
      bFail  |-> "none",   \* why getentropy_urandom went to nodevrandom
      cErr   |-> "none",   \* errno with which _sysctl failed
      opened |-> 0,        \* descriptors opened
      closed |-> 0,        \* descriptors closed
      shorts |-> 0,        \* short returns received
      req    |-> << >>,    \* the running loop's last request: <<offset, count>>
      last   |-> <<"none", 0>>,  \* the kind of the last answer, and a parity
      stale  |-> FALSE,    \* getrandom was entered with the flag already false
      via    |-> "none" ]  \* the strategy whose success the call returned

\* The kind of the last answer after one more answer of kind k: a second
\* answer of the same kind in a row changes the parity.
Again(l, k) == IF l = <<k, 0>> THEN <<k, 1>> ELSE <<k, 0>>

\* The history after OS call op answered res.
Did(h, op, res) ==
    [h EXCEPT !.ops = @ \cup {op},
              !.last = IF ~traced THEN @
                       ELSE IF res \in {EINTR, EAGAIN} THEN Again(@, "intr")
                       ELSE IF res = "zero" THEN Again(@, "zero")
                       ELSE <<"none", 0>>,
              !.first = IF @ = "none" THEN op ELSE @,
              !.dev = IF op = "fstat" THEN res ELSE @,
              !.intr = IF res \in {EINTR, EAGAIN} THEN @ \cup {op} ELSE @,
              !.shorts = IF res = "short" THEN @ + 1 ELSE @]

\* The history after a request for cnt bytes at buf + off.
Asked(h, off, cnt) == [h EXCEPT !.req = <<off, cnt>>]

\* The history after the running loop was left.
LoopLeft(h) == [h EXCEPT !.req = << >>]

\* The byte counts a call asking for want bytes may deliver: all of them, none,
\* or (while the call's budget of short returns lasts) a few of them.
Returns(h, want) ==
    {want, 0} \cup {k \in 1..MaxShort : k < want /\ h.shorts < MaxShorts}

Answer(k, want) == IF k = want THEN "ok" ELSE IF k = 0 THEN "zero" ELSE "short"

\* The caller's buffer: n bytes and BufSlack more, none written yet.
FreshBuf(len) == [j \in 0..(len + BufSlack - 1) |-> "none"]

\* The kernel stores k bytes at buf + off on behalf of strategy who.
Store(b, off, k, who) ==
    [j \in DOMAIN b |-> IF off <= j /\ j < off + k THEN who ELSE b[j]]

\* open(2) returns the lowest descriptor not in use (0, 1, 2 are the standard ones).
LowestFree == CHOOSE d \in 3..(3 + Cardinality(open_fds)) :
                  d \notin open_fds /\ \A e \in 3..(d - 1) : e \in open_fds

(***************************************************************************)
(* The decisions the code takes.                                           *)
(***************************************************************************)
AssertHolds_NDEBUG(len) == TRUE

\* assert( n <= 256 )
AssertHolds(len) == len <= MaxRequest

FlagReads_ignored(t) == {TRUE}

\* if (getrandom_available): the flag is a plain static read without any
\* synchronisation, so a thread that races with the store of line 86 reads
\* the stored value or the value it saw before.
FlagReads(t) == {getrandom_available, view[t]}

GetrandomMore_offByOne(lf) == lf > 1

\* getentropy_getrandom: while (left > 0)
GetrandomMore(lf) == lf > 0

\* getentropy_getrandom: if (errno == EINTR) continue;
GetrandomRetry(e) == e = EINTR

IsNotImplemented_anyError(e) == TRUE

\* ggentropy: if (errno == ENOSYS) getrandom_available = false; else return false;
IsNotImplemented(e) == e = ENOSYS

\* getentropy_urandom: if (errno == EINTR) goto start;
OpenRetry(e) == e = EINTR

DeviceRefused_noTypeCheck(ans) == ans = "fail"

\* fstat(fd, &st) == -1 || !S_ISCHR(st.st_mode)
DeviceRefused(ans) == ans = "fail" \/ ans # "chr"

\* if (errno == EAGAIN || errno == EINTR) continue;
ReadRetry(e) == e = EAGAIN \/ e = EINTR

\* getentropy_urandom: for (i = 0; i < len; )
ReadMore(off, len) == off < len

Wanted_whole(len, off) == len

\* size_t wanted = len - i;
Wanted(len, off) == len - off

\* getentropy_sysctl: for (i = 0; i < len; )
SysctlMore(off, len) == off < len

Chunk_fixed(len, off) == SysctlChunk

\* size_t chunk = min(len - i, 16); the file defines no min: it is read as
\* the smaller of the two, as in the getentropy_linux.c this code comes from.
Chunk(len, off) == Min(len - off, SysctlChunk)

(***************************************************************************)
(* State.                                                                  *)
(***************************************************************************)
\* Thread t's part of the next state.
Set(t, pcv, ev, sv, lf, iv, fdv, bv, rv, hv) ==
    /\ pc' = [pc EXCEPT ![t] = pcv]
    /\ errno' = [errno EXCEPT ![t] = ev]
    /\ saved' = [saved EXCEPT ![t] = sv]
    /\ left' = [left EXCEPT ![t] = lf]
    /\ i' = [i EXCEPT ![t] = iv]
    /\ fd' = [fd EXCEPT ![t] = fdv]
    /\ buf' = [buf EXCEPT ![t] = bv]
    /\ result' = [result EXCEPT ![t] = rv]
    /\ hist' = [hist EXCEPT ![t] = hv]

\* Thread t's call returns val with errno ev: its locals are gone.
Return(t, val, ev, hv) ==
    Set(t, "idle", ev, "none", 0, 0, NoFd, buf[t], val, LoopLeft(hv))

\* Thread t moves to line pcv, changing nothing else of its own.
Goto(t, pcv) ==
    Set(t, pcv, errno[t], saved[t], left[t], i[t], fd[t], buf[t], result[t], hist[t])

\* Thread t moves to line pcv with history hv.
GotoWith(t, pcv, hv) ==
    Set(t, pcv, errno[t], saved[t], left[t], i[t], fd[t], buf[t], result[t], hv)

InitWith(ts, ls, es, tr) ==
    /\ SYS_getrandom \in BOOLEAN
    /\ SYS__sysctl \in BOOLEAN
    /\ getrandom_available = TRUE
    /\ open_fds = {}
    /\ threads = ts
    /\ lens = ls
    /\ errnos = es
    /\ traced = tr
    /\ pc = [t \in ts |-> "idle"]
    /\ n = [t \in ts |-> 0]
    /\ buf = [t \in ts |-> FreshBuf(0)]
    /\ errno \in [ts -> es]
    /\ saved = [t \in ts |-> "none"]
    /\ left = [t \in ts |-> 0]
    /\ i = [t \in ts |-> 0]
    /\ fd = [t \in ts |-> NoFd]
    /\ view = [t \in ts |-> TRUE]
    /\ result = [t \in ts |-> "none"]
    /\ hist = [t \in ts |-> NewHist(TRUE, errno[t], FALSE)]

\* The lengths a single-threaded caller passes: the small ones, one more than a
\* _sysctl chunk, the largest allowed and the first one not allowed.
Lengths == (0..MaxLen) \cup {SysctlChunk + 1, MaxRequest, MaxRequest + 1}

Init == InitWith({1}, Lengths, EntryErrnos, FALSE)

\* assert() aborts the process: no thread takes another step.
Running == \A t \in threads : pc[t] # "aborted"

\* Thread t is about to execute line l.
At(t, l) == t \in threads /\ Running /\ pc[t] = l

build == <<SYS_getrandom, SYS__sysctl, threads, lens, errnos, traced>>

(***************************************************************************)
(* ggentropy, lines 70-129.                                                *)
(***************************************************************************)
\* A caller on thread t calls ggentropy(buf, len) with errno e.
Call(t, len, e) ==
    /\ At(t, "idle")
    /\ len \in lens
    /\ e \in errnos
    /\ n' = [n EXCEPT ![t] = len]
    /\ Set(t, "L71", e, "none", 0, 0, NoFd, FreshBuf(len), "none",
           NewHist(getrandom_available, e, hist[t].bFail # "none"))
    /\ UNCHANGED <<build, getrandom_available, open_fds, view>>

\* Line 71: assert( n <= 256 ), then the first strategy compiled in.
AssertLength(t) ==
    /\ At(t, "L71")
    /\ IF AssertHolds(n[t])
         THEN Goto(t, IF SYS_getrandom THEN "L77" ELSE "L100")
         ELSE Set(t, "aborted", errno[t], saved[t], left[t], i[t], fd[t],
                  buf[t], "abort", hist[t])
    /\ UNCHANGED <<build, getrandom_available, open_fds, view, n>>

\* Line 77: if (getrandom_available).
TestAvailable(t) ==
    /\ At(t, "L77")
    /\ \E v \in FlagReads(t) :
         /\ view' = [view EXCEPT ![t] = v]
         /\ Goto(t, IF v THEN "L81" ELSE "L100")
    /\ UNCHANGED <<build, getrandom_available, open_fds, n>>

\* Line 81 and lines 135-138: enter getentropy_getrandom(buf, n).
EnterGetrandom(t) ==
    /\ At(t, "L81")
    /\ Set(t, "L140", errno[t], errno[t], n[t], 0, fd[t], buf[t], result[t],
           [hist[t] EXCEPT !.tried = Append(@, "getrandom"),
                           !.stale = ~getrandom_available])
    /\ UNCHANGED <<build, getrandom_available, open_fds, view, n>>

\* Lines 140-153: one turn of while (left > 0), or the return after it; a
\* return of 0 makes ggentropy return true (lines 82-83).
Getrandom(t) ==
    /\ At(t, "L140")
    /\ IF GetrandomMore(left[t])
         THEN \/ \E k \in Returns(hist[t], left[t]) :
                   Set(t, "L140", errno[t], saved[t], left[t] - k, i[t] + k, fd[t],
                       Store(buf[t], i[t], k, "getrandom"), result[t],
                       Did(Asked(hist[t], i[t], left[t]), "getrandom", Answer(k, left[t])))
              \/ \E e \in GetrandomErrnos :
                   IF GetrandomRetry(e)
                     THEN Set(t, "L140", e, saved[t], left[t], i[t], fd[t], buf[t],
                              result[t],
                              Did(Asked(hist[t], i[t], left[t]), "getrandom", e))
                     ELSE Set(t, "L85", e, "none", 0, 0, fd[t], buf[t], result[t],
                              [LoopLeft(Did(hist[t], "getrandom", e))
                                 EXCEPT !.aErr = e])
         ELSE Return(t, "true", saved[t], [hist[t] EXCEPT !.via = "getrandom"])
    /\ UNCHANGED <<build, getrandom_available, open_fds, view, n>>

\* Lines 85-90: getentropy_getrandom returned -1.
GetrandomFailed(t) ==
    /\ At(t, "L85")
    /\ IF IsNotImplemented(errno[t])
         THEN /\ getrandom_available' = FALSE
              /\ view' = [view EXCEPT ![t] = FALSE]
              /\ Goto(t, "L100")
         ELSE /\ Return(t, "false", errno[t], hist[t])
              /\ UNCHANGED <<getrandom_available, view>>
    /\ UNCHANGED <<build, open_fds, n>>

(***************************************************************************)
(* getentropy_urandom, lines 157-213.                                      *)
(***************************************************************************)
EnterUrandom_cached(t) ==
    /\ At(t, "L100")
    /\ IF hist[t].after
         THEN Set(t, "L104", EIO, "none", 0, 0, NoFd, buf[t], result[t],
                  [hist[t] EXCEPT !.tried = Append(@, "urandom"), !.bFail = "open"])
         ELSE Set(t, "L174", errno[t], errno[t], 0, 0, NoFd, buf[t], result[t],
                  [hist[t] EXCEPT !.tried = Append(@, "urandom")])
    /\ UNCHANGED <<build, getrandom_available, open_fds, view, n>>

\* Line 100 and line 163: enter getentropy_urandom(buf, n).
EnterUrandom(t) ==
    /\ At(t, "L100")
    /\ Set(t, "L174", errno[t], errno[t], 0, 0, NoFd, buf[t], result[t],
           [hist[t] EXCEPT !.tried = Append(@, "urandom")])
    /\ UNCHANGED <<build, getrandom_available, open_fds, view, n>>

\* nodevrandom (lines 210-212), back in ggentropy at line 101 with ret = -1.
Nodevrandom(t, hv) ==
    Set(t, "L104", EIO, "none", 0, 0, NoFd, buf[t], result[t], LoopLeft(hv))

Close_forgotten(t) == open_fds' = open_fds

\* close(fd).
Close(t) == open_fds' = open_fds \ {fd[t]}

Closed(h) == [h EXCEPT !.closed = @ + 1, !.ops = @ \cup {"close"}]

\* Lines 165-179: open("/dev/urandom", O_RDONLY | O_NOFOLLOW | O_CLOEXEC).
Open(t) ==
    /\ At(t, "L174")
    /\ \/ /\ open_fds' = open_fds \cup {LowestFree}
          /\ Set(t, "L185", errno[t], saved[t], left[t], i[t], LowestFree, buf[t],
                 result[t],
                 [Did(hist[t], "open", "ok") EXCEPT !.opened = @ + 1])
       \/ /\ \E e \in OpenErrnos :
               IF OpenRetry(e)
                 THEN Set(t, "L174", e, saved[t], left[t], i[t], fd[t], buf[t],
                          result[t], Did(hist[t], "open", e))
                 ELSE Nodevrandom(t, [Did(hist[t], "open", e) EXCEPT !.bFail = "open"])
          /\ UNCHANGED open_fds
    /\ UNCHANGED <<build, getrandom_available, view, n>>

\* Lines 185-188: fstat and S_ISCHR.
Fstat(t) ==
    /\ At(t, "L185")
    /\ \E a \in FstatAnswers :
         IF DeviceRefused(a)
           THEN /\ Close(t)
                /\ Nodevrandom(t, [Closed(Did(hist[t], "fstat", a))
                                     EXCEPT !.bFail = "fstat"])
           ELSE /\ GotoWith(t, "L189", Did(hist[t], "fstat", a))
                /\ UNCHANGED open_fds
    /\ UNCHANGED <<build, getrandom_available, view, n>>

\* Lines 189-192: ioctl(fd, RNDGETENTCNT, &cnt).
Ioctl(t) ==
    /\ At(t, "L189")
    /\ \E a \in IoctlAnswers :
         IF a = "fail"
           THEN /\ Close(t)
                /\ Nodevrandom(t, [Closed(Did(hist[t], "ioctl", a))
                                     EXCEPT !.bFail = "ioctl"])
           ELSE /\ Set(t, "L193", errno[t], saved[t], left[t], 0, fd[t], buf[t],
                       result[t], Did(hist[t], "ioctl", a))
                /\ UNCHANGED open_fds
    /\ UNCHANGED <<build, getrandom_available, view, n>>

\* Lines 193-208: one turn of for (i = 0; i < len; ), or close(fd) and the
\* return after it; a return of 0 makes ggentropy return true (lines 101-102).
Read(t) ==
    /\ At(t, "L193")
    /\ IF ReadMore(i[t], n[t])
         THEN \/ /\ \E k \in Returns(hist[t], Wanted(n[t], i[t])) :
                      Set(t, "L193", errno[t], saved[t], left[t], i[t] + k, fd[t],
                          Store(buf[t], i[t], k, "urandom"), result[t],
                          Did(Asked(hist[t], i[t], Wanted(n[t], i[t])), "read",
                              Answer(k, Wanted(n[t], i[t]))))
                 /\ UNCHANGED open_fds
              \/ \E e \in ReadErrnos :
                   IF ReadRetry(e)
                     THEN /\ Set(t, "L193", e, saved[t], left[t], i[t], fd[t], buf[t],
                                 result[t],
                                 Did(Asked(hist[t], i[t], Wanted(n[t], i[t])),
                                     "read", e))
                          /\ UNCHANGED open_fds
                     ELSE /\ Close(t)
                          /\ Nodevrandom(t, [Closed(Did(hist[t], "read", e))
                                               EXCEPT !.bFail = "read"])
         ELSE /\ Close(t)
              /\ Return(t, "true", saved[t],
                        [Closed(hist[t]) EXCEPT !.via = "urandom"])
    /\ UNCHANGED <<build, getrandom_available, view, n>>

(***************************************************************************)
(* getentropy_sysctl, lines 215-244.                                       *)
(***************************************************************************)
EnterSysctl_noFallback(t) ==
    /\ At(t, "L104")
    /\ Return(t, "false", errno[t], hist[t])
    /\ UNCHANGED <<build, getrandom_available, open_fds, view, n>>

\* Lines 101-128: getentropy_urandom returned -1; enter getentropy_sysctl(buf, n)
\* (line 221) where it is compiled in, return false where it is not.
EnterSysctl(t) ==
    /\ At(t, "L104")
    /\ IF SYS__sysctl
         THEN Set(t, "L223", errno[t], errno[t], 0, 0, NoFd, buf[t], result[t],
                  [hist[t] EXCEPT !.tried = Append(@, "sysctl")])
         ELSE Return(t, "false", errno[t], hist[t])
    /\ UNCHANGED <<build, getrandom_available, open_fds, view, n>>

\* Lines 223-242: one turn of for (i = 0; i < len; ), or the return after it;
\* ggentropy returns true on 0 and false on -1 (lines 124-128).
Sysctl(t) ==
    /\ At(t, "L223")
    /\ IF SysctlMore(i[t], n[t])
         THEN \/ \E k \in Returns(hist[t], Chunk(n[t], i[t])) :
                   Set(t, "L223", errno[t], saved[t], left[t], i[t] + k, fd[t],
                       Store(buf[t], i[t], k, "sysctl"), result[t],
                       Did(Asked(hist[t], i[t], Chunk(n[t], i[t])), "sysctl",
                           Answer(k, Chunk(n[t], i[t]))))
              \/ \E e \in SysctlErrnos :
                   Return(t, "false", EIO,
                          [Did(hist[t], "sysctl", e) EXCEPT !.cErr = e])
         ELSE Return(t, "true", saved[t], [hist[t] EXCEPT !.via = "sysctl"])
    /\ UNCHANGED <<build, getrandom_available, open_fds, view, n>>

(***************************************************************************)
(* The process.                                                            *)
(***************************************************************************)
Next ==
    \E t \in 1..NThreads :
         \/ \E len \in Lengths, e \in EntryErrnos : Call(t, len, e)
         \/ AssertLength(t)
         \/ TestAvailable(t)
         \/ EnterGetrandom(t)
         \/ Getrandom(t)
         \/ GetrandomFailed(t)
         \/ EnterUrandom(t)
         \/ Open(t)
         \/ Fstat(t)
         \/ Ioctl(t)
         \/ Read(t)
         \/ EnterSysctl(t)
         \/ Sysctl(t)

\* One thread calls ggentropy again and again.
Spec == Init /\ [][Next]_vars

\* NThreads threads call ggentropy concurrently.
InitMT == InitWith(1..NThreads, 0..MTMaxLen, {"EPERM"}, FALSE)

SpecMT == InitMT /\ [][Next]_vars

\* A thread inside ggentropy executes its next line.
Step(t) ==
    \/ AssertLength(t)
    \/ TestAvailable(t)
    \/ EnterGetrandom(t)
    \/ Getrandom(t)
    \/ GetrandomFailed(t)
    \/ EnterUrandom(t)
    \/ Open(t)
    \/ Fstat(t)
    \/ Ioctl(t)
    \/ Read(t)
    \/ EnterSysctl(t)
    \/ Sysctl(t)

\* One thread calls ggentropy with the lengths 0..MaxLen; a thread inside
\* ggentropy keeps running, and the kind of the kernel's last answer is kept.
InitFair == InitWith({1}, 0..MaxLen, EntryErrnos, TRUE)

SpecFair == InitFair /\ [][Next]_vars /\ \A t \in 1..NThreads : WF_vars(Step(t))

(***************************************************************************)
(* What a call has done, as the properties below read it.                  *)
(***************************************************************************)
\* Thread t's last call has returned true or false and no new one has begun.
Returned(t) == pc[t] = "idle" /\ result[t] \in {"true", "false"}

\* The bytes of thread t's buffer at the indices in S.
Bytes(t, S) == {buf[t][j] : j \in DOMAIN buf[t] \cap S}

\* The number of times thread t's call entered strategy s.
Passes(t, s) == Cardinality({k \in DOMAIN hist[t].tried : hist[t].tried[k] = s})

\* C1: when a call returns true, every byte at index 0..n-1 was written by the
\* one strategy whose success the call returned, and no byte at index >= n
\* was written by any strategy.
C1_SuccessFillsExactlyLength ==
    \A t \in threads :
        result[t] = "true" =>
            /\ n[t] <= MaxRequest
            /\ hist[t].via \in Strategies
            /\ Bytes(t, 0..(n[t] - 1)) \subseteq {hist[t].via}
            /\ Bytes(t, n[t]..(n[t] + BufSlack)) = {"none"}

\* A call of the largest length returned true from _sysctl after getrandom
\* and /dev/urandom had both stored some bytes and failed.
C1_Witness ==
    \E t \in threads :
        /\ result[t] = "true"
        /\ n[t] = MaxRequest
        /\ hist[t].via = "sysctl"
        /\ hist[t].tried = <<"getrandom", "urandom", "sysctl">>
        /\ hist[t].bFail = "read"
        /\ hist[t].shorts = MaxShorts

\* C2: a call with n = 0 returns true and leaves every byte of the buffer
\* unwritten, whatever the flag, the build and the kernel's answers.
C2_ZeroLengthSucceeds ==
    \A t \in threads :
        (Returned(t) /\ n[t] = 0) =>
            /\ result[t] = "true"
            /\ Bytes(t, Int) = {"none"}

\* C3: the flag starts true; it changes only from true to false, and only in
\* a call whose getrandom reported ENOSYS; a call that starts with the flag
\* false never invokes getrandom, and its first OS call is the open.
C3_FlagMonotoneAndSkipped ==
    /\ getrandom_available = TRUE
    /\ [][getrandom_available' # getrandom_available =>
            /\ getrandom_available = TRUE
            /\ getrandom_available' = FALSE
            /\ \E t \in threads : pc[t] = "L85" /\ hist[t].aErr = ENOSYS]_vars
    /\ [](\A t \in threads :
            (~hist[t].flag0) =>
                /\ "getrandom" \notin hist[t].ops
                /\ "getrandom" \notin Bytes(t, Int)
                /\ Passes(t, "getrandom") = 0
                /\ hist[t].first \in {"none", "open"}
                /\ Returned(t) => hist[t].first = "open")

\* A call that started with the flag false has returned true.
C3_Witness ==
    \E t \in threads :
        /\ Returned(t)
        /\ ~hist[t].flag0
        /\ result[t] = "true"
        /\ n[t] > 0

\* C4: when getentropy_getrandom fails with an errno other than EINTR and
\* ENOSYS, the call returns false having entered no other strategy and made
\* no other OS call, and the flag is still true.
C4_OtherErrorFailsAtOnce ==
    \A t \in threads :
        hist[t].aErr \notin {"none", ENOSYS, EINTR} =>
            /\ pc[t] \in {"L85", "idle"}
            /\ pc[t] = "idle" => result[t] = "false"
            /\ hist[t].tried = <<"getrandom">>
            /\ hist[t].ops = {"getrandom"}
            /\ hist[t].opened = 0
            /\ getrandom_available = TRUE

\* A call returned false on EFAULT from getrandom after a short return.
C4_Witness ==
    \E t \in threads :
        /\ Returned(t)
        /\ hist[t].aErr = "EFAULT"
        /\ result[t] = "false"
        /\ hist[t].shorts > 0

\* C5: an EINTR from getrandom, open, read or _sysctl, and an EAGAIN from
\* read, is retried: the step in which a call is first interrupted in one of
\* these leaves the thread at the same line with the same offset and the same
\* remaining length, and returns nothing.
C5_TransientRetried ==
    [][\A t \in threads :
          (pc[t] # "idle" /\ hist'[t].intr # hist[t].intr) =>
              /\ pc'[t] = pc[t]
              /\ i'[t] = i[t]
              /\ left'[t] = left[t]
              /\ result'[t] = result[t]]_vars

\* C6: a call returns false exactly when getentropy_getrandom failed with an
\* errno other than EINTR and ENOSYS, or getentropy_urandom failed and
\* getentropy_sysctl is not compiled in, or both of them failed; a failure of
\* getentropy_urandom, whatever its cause, leads to getentropy_sysctl where it
\* is compiled in; and only the three strategies write the buffer.
C6_FailsExactlyWhen ==
    \A t \in threads :
        /\ Returned(t) =>
              (result[t] = "false" <=>
                  \/ hist[t].aErr \notin {"none", ENOSYS, EINTR}
                  \/ hist[t].bFail # "none" /\ ~SYS__sysctl
                  \/ hist[t].bFail # "none" /\ hist[t].cErr # "none")
        /\ (hist[t].bFail # "none" /\ SYS__sysctl) =>
              /\ hist[t].bFail \in {"open", "fstat", "ioctl", "read"}
              /\ pc[t] = "L104" \/ Passes(t, "sysctl") = 1
        /\ Bytes(t, Int) \subseteq Strategies \cup {"none"}

\* A call returned false after a read error on the device and a failure of
\* _sysctl.
C6_Witness ==
    \E t \in threads :
        /\ Returned(t)
        /\ result[t] = "false"
        /\ hist[t].bFail = "read"
        /\ hist[t].cErr = ENOSYS
        /\ "urandom" \in Bytes(t, Int)

\* C7: when a call returns, every descriptor it opened has been closed, once:
\* the call opens at most one, closes none it did not open, and no descriptor
\* is open while no call is running.
C7_NoDescriptorLeak ==
    /\ \A t \in threads :
          /\ hist[t].closed <= hist[t].opened
          /\ hist[t].opened <= 1
          /\ pc[t] = "idle" =>
                /\ hist[t].opened = hist[t].closed
                /\ fd[t] = NoFd
    /\ (\A t \in threads : pc[t] = "idle") => open_fds = {}

\* A call that opened the device and failed the ioctl has returned.
C7_Witness ==
    \E t \in threads :
        /\ Returned(t)
        /\ hist[t].opened = 1
        /\ hist[t].closed = 1
        /\ hist[t].bFail = "ioctl"
        /\ result[t] = "false"

\* C8: with several threads in ggentropy at once, the flag never goes from
\* false back to true, a call that returns true has filled all n bytes of its
\* own buffer, and a call passes through getentropy_getrandom at most once,
\* also when another thread had already cleared the flag.
C8_RaceIsBenign ==
    /\ [][getrandom_available' => getrandom_available]_vars
    /\ [](\A t \in threads :
            /\ result[t] = "true" => Bytes(t, 0..(n[t] - 1)) \subseteq {hist[t].via}
            /\ result[t] = "true" => hist[t].via \in Strategies
            /\ Passes(t, "getrandom") <= 1
            /\ hist[t].stale => Passes(t, "getrandom") = 1)

\* A thread passed through getentropy_getrandom after another thread had
\* cleared the flag, and its call returned true.
C8_Witness ==
    \E t \in threads :
        /\ Cardinality(threads) > 1
        /\ hist[t].stale
        /\ result[t] = "true"
        /\ n[t] > 0
        /\ hist[t].via = "getrandom"

\* C9: a call with n > 256 stops at the assertion: it enters no strategy,
\* makes no OS call, writes no byte, leaves the flag as it was and never
\* returns; a call with n <= 256 is never stopped by it.
C9_OverlongRejected ==
    \A t \in threads :
        /\ n[t] > MaxRequest =>
              /\ pc[t] \in {"L71", "aborted"}
              /\ result[t] \in {"none", "abort"}
              /\ hist[t].tried = << >>
              /\ hist[t].ops = {}
              /\ Bytes(t, Int) = {"none"}
              /\ getrandom_available = hist[t].flag0
        /\ pc[t] = "aborted" => n[t] > MaxRequest

\* A call with n = 257 was stopped by the assertion.
C9_Witness ==
    \E t \in threads : pc[t] = "aborted" /\ n[t] = MaxRequest + 1

\* What C10 says of the order of the checks and of a failed check, but for
\* where the call goes next.
DeviceChecked(t) ==
    /\ "read" \in hist[t].ops =>
          /\ "ioctl" \in hist[t].ops
          /\ hist[t].bFail \in {"none", "read"}
    /\ "ioctl" \in hist[t].ops =>
          /\ "fstat" \in hist[t].ops
          /\ hist[t].dev = "chr"
          /\ hist[t].bFail \in {"none", "ioctl", "read"}
    /\ hist[t].bFail \in {"fstat", "ioctl"} =>
          /\ hist[t].opened = 1
          /\ hist[t].closed = 1
          /\ "read" \notin hist[t].ops
          /\ "urandom" \notin Bytes(t, Int)
          /\ hist[t].via # "urandom"

\* C10 as stated: no read unless fstat reported a character device and then
\* the ioctl succeeded; when either check fails the descriptor is closed,
\* nothing is read and the call proceeds to getentropy_sysctl.
C10_RefusedGoesToSysctl ==
    \A t \in threads :
        /\ DeviceChecked(t)
        /\ hist[t].bFail \in {"fstat", "ioctl"} =>
              pc[t] = "L104" \/ Passes(t, "sysctl") = 1

\* C10 as amended: ... and the call proceeds to getentropy_sysctl where it is
\* compiled in, and returns false where it is not.
C10_RefusedFallsThrough ==
    \A t \in threads :
        /\ DeviceChecked(t)
        /\ hist[t].bFail \in {"fstat", "ioctl"} =>
              \/ pc[t] = "L104"
              \/ SYS__sysctl /\ Passes(t, "sysctl") = 1
              \/ ~SYS__sysctl /\ Returned(t) /\ result[t] = "false"

\* The opened file was not a character device and the call returned true
\* from _sysctl.
C10_Witness ==
    \E t \in threads :
        /\ Returned(t)
        /\ hist[t].dev = "reg"
        /\ hist[t].bFail = "fstat"
        /\ hist[t].via = "sysctl"
        /\ n[t] > 0

\* What C11 says of the order of the strategies, but for when the device is
\* opened: the strategies entered are getrandom, urandom, sysctl in this
\* order, each at most once; getentropy_sysctl is entered only after
\* getentropy_urandom failed in this call; and a strategy that succeeds is the
\* last one entered, the call returning true.
StrategyOrder(t) ==
    /\ hist[t].tried \in { << >>, <<"getrandom">>, <<"urandom">>,
                           <<"getrandom", "urandom">>, <<"urandom", "sysctl">>,
                           <<"getrandom", "urandom", "sysctl">> }
    /\ "getrandom" \in hist[t].ops => Passes(t, "getrandom") = 1
    /\ hist[t].ops \cap {"open", "fstat", "ioctl", "read", "close"} # {} =>
          Passes(t, "urandom") = 1
    /\ "sysctl" \in hist[t].ops => Passes(t, "sysctl") = 1
    /\ Passes(t, "sysctl") = 1 =>
          /\ hist[t].bFail # "none"
          /\ hist[t].via # "urandom"
    /\ hist[t].via # "none" =>
          /\ Returned(t) /\ result[t] = "true"
          /\ hist[t].tried[Len(hist[t].tried)] = hist[t].via
    /\ Passes(t, "urandom") = 1 => hist[t].via # "getrandom"

\* C11 as stated: the strategies run in the order getrandom, device, control
\* interface, each at most once; the device strategy is entered only if
\* getrandom was skipped because the flag was false or reported ENOSYS in this
\* call; the control interface only after the device strategy failed; a
\* success ends the call.
C11_FixedOrder ==
    \A t \in threads :
        /\ StrategyOrder(t)
        /\ Passes(t, "urandom") = 1 =>
              \/ Passes(t, "getrandom") = 0 /\ ~hist[t].flag0
              \/ hist[t].aErr = ENOSYS

\* C11 as amended: ... getrandom was skipped because the flag was false or
\* because it is not compiled in, or reported ENOSYS in this call ...
C11_FixedOrderPerBuild ==
    \A t \in threads :
        /\ StrategyOrder(t)
        /\ Passes(t, "urandom") = 1 =>
              \/ Passes(t, "getrandom") = 0 /\ (~hist[t].flag0 \/ ~SYS_getrandom)
              \/ hist[t].aErr = ENOSYS

\* A call entered all three strategies in order and a later call, starting
\* with the flag false, returned true from the device alone.
C11_Witness ==
    \E t \in threads :
        /\ Returned(t)
        /\ SYS_getrandom
        /\ ~hist[t].flag0
        /\ hist[t].tried = <<"urandom">>
        /\ hist[t].via = "urandom"
        /\ hist[t].shorts > 0

\* The loop at line l of thread t's call, filling on behalf of strategy who:
\* the offset is within 0..n, the bytes below it are who's and none at or
\* above it is, and the last request of the loop was for at most max bytes,
\* began at or below the offset and ended at or below index n.
LoopState(t, l, who, max) ==
    pc[t] = l =>
        /\ 0 <= i[t] /\ i[t] <= n[t]
        /\ Bytes(t, 0..(i[t] - 1)) \subseteq {who}
        /\ who \notin Bytes(t, i[t]..(n[t] + BufSlack))
        /\ hist[t].req # << >> =>
              /\ hist[t].req[1] <= i[t]
              /\ hist[t].req[2] <= max
              /\ hist[t].req[1] + hist[t].req[2] <= n[t]

\* C12: in while (left > 0) of getentropy_getrandom and in the read loop of
\* getentropy_urandom, offset + remaining = n and 0 <= offset <= n; every
\* request asks for the n - offset remaining bytes at buf + offset; a return
\* of k bytes advances the offset by k and the remaining length by -k; an
\* EINTR (or EAGAIN of read) leaves both unchanged; and the loop is left with
\* success only at offset = n.
C12_LoopAccounting ==
    /\ [](\A t \in threads :
            /\ LoopState(t, "L140", "getrandom", MaxRequest)
            /\ LoopState(t, "L193", "urandom", MaxRequest)
            /\ pc[t] = "L140" => i[t] + left[t] = n[t]
            /\ (pc[t] \in {"L140", "L193"} /\ hist[t].req # << >>) =>
                  hist[t].req[1] + hist[t].req[2] = n[t])
    /\ [][\A t \in threads :
            /\ (pc[t] \in {"L140", "L193"} /\ pc'[t] = pc[t] /\ hist'[t] # hist[t]) =>
                  /\ hist'[t].req = <<i[t], n[t] - i[t]>>
                  /\ i'[t] >= i[t]
                  /\ pc[t] = "L140" => left[t] - left'[t] = i'[t] - i[t]
                  /\ hist'[t].shorts # hist[t].shorts =>
                        i'[t] - i[t] \in 1..(n[t] - i[t] - 1)
                  /\ hist'[t].intr # hist[t].intr => i'[t] = i[t]
                  /\ errno'[t] # errno[t] =>
                        /\ errno'[t] \in {EINTR, EAGAIN}
                        /\ i'[t] = i[t]
                        /\ buf'[t] = buf[t]
            /\ (pc[t] \in {"L140", "L193"} /\ result'[t] = "true") =>
                  /\ i[t] = n[t]
                  /\ pc[t] = "L140" => left[t] = 0]_vars

\* After a short read the device read was interrupted, and the same range,
\* the rest of the buffer, was requested.
C12_Witness ==
    \E t \in threads :
        /\ pc[t] = "L193"
        /\ 0 < i[t] /\ i[t] < n[t]
        /\ hist[t].shorts > 0
        /\ errno[t] = EAGAIN
        /\ hist[t].req = <<i[t], n[t] - i[t]>>

\* C13: in the loop of getentropy_sysctl every request asks for
\* min(n - offset, 16) bytes at buf + offset, so none for more than 16 bytes
\* nor past index n; the offset advances by the count _sysctl reports; true is
\* returned only at offset = n; and the first _sysctl that fails makes the
\* call return false.
C13_ChunkedRequests ==
    /\ [](\A t \in threads :
            /\ LoopState(t, "L223", "sysctl", 16)
            /\ hist[t].cErr # "none" =>
                  /\ Returned(t)
                  /\ result[t] = "false"
                  /\ hist[t].via = "none")
    /\ [][\A t \in threads :
            /\ (pc[t] = "L223" /\ pc'[t] = pc[t] /\ hist'[t] # hist[t]) =>
                  /\ hist'[t].req = <<i[t], Min(n[t] - i[t], 16)>>
                  /\ hist'[t].req[2] <= 16
                  /\ hist'[t].req[1] + hist'[t].req[2] <= n[t]
                  /\ i'[t] - i[t] \in 0..hist'[t].req[2]
                  /\ \A j \in DOMAIN buf[t] :
                        buf'[t][j] # buf[t][j] => i[t] <= j /\ j < i'[t]
                  /\ hist'[t].cErr = "none"
            /\ (pc[t] = "L223" /\ result'[t] = "true") => i[t] = n[t]
            /\ (pc[t] = "L223" /\ "sysctl" \in hist'[t].intr) =>
                  /\ pc'[t] = "idle"
                  /\ result'[t] = "false"
                  /\ hist'[t].cErr = EINTR]_vars

\* A call for 17 bytes has received a full chunk of 16 bytes and then the one
\* byte left.
C13_Witness ==
    \E t \in threads :
        /\ pc[t] = "L223"
        /\ n[t] = SysctlChunk + 1
        /\ i[t] = n[t]
        /\ hist[t].req = <<SysctlChunk, 1>>
        /\ Bytes(t, 0..(n[t] - 1)) = {"sysctl"}

\* What a call returns, from the answers the kernel gave it and the build.
Outcome(h) ==
    IF h.aErr \notin {"none", ENOSYS} THEN "false"
    ELSE IF h.bFail = "none" THEN "true"
    ELSE IF SYS__sysctl /\ h.cErr = "none" THEN "true"
    ELSE "false"

\* C14: only the flag is carried from one call to the next. A call begins
\* with no descriptor open, nothing written and nothing tried, whatever the
\* call before it did; a call that begins with the flag false after a call in
\* which getentropy_urandom failed goes to open /dev/urandom all the same; and
\* what a call returns is fixed by the kernel's answers to it.
C14_OnlyFlagCarried ==
    /\ [][\A t \in threads :
            (pc[t] = "idle" /\ pc'[t] # "idle") =>
                /\ open_fds \cap {fd[t], fd'[t]} = {}
                /\ fd'[t] = NoFd
                /\ hist'[t].flag0 = getrandom_available
                /\ hist'[t].tried = << >>
                /\ hist'[t].ops = {}
                /\ hist'[t].bFail = "none" /\ hist'[t].cErr = "none"
                /\ Bytes(t, Int)' = {"none"}
                /\ getrandom_available' = getrandom_available]_vars
    /\ [](\A t \in threads :
            /\ (hist[t].after /\ ~hist[t].flag0 /\ n[t] <= MaxRequest) =>
                  /\ hist[t].first \in {"none", "open"}
                  /\ pc[t] \in {"idle", "L71", "L77", "L100", "L174"}
                        \/ "open" \in hist[t].ops
                  /\ Returned(t) => "open" \in hist[t].ops
            /\ Returned(t) => result[t] = Outcome(hist[t])
            /\ (pc[t] = "idle" /\ Cardinality(threads) = 1) => open_fds = {})

\* After a call in which getentropy_urandom failed, a call that began with
\* the flag false opened the device and returned true from it.
C14_Witness ==
    \E t \in threads :
        /\ Returned(t)
        /\ hist[t].after
        /\ ~hist[t].flag0
        /\ hist[t].opened = 1
        /\ hist[t].via = "urandom"
        /\ result[t] = "true"
        /\ n[t] > 0

\* Thread t's call is inside ggentropy, past the assertion.
Filling(t) == t \in threads /\ pc[t] \notin {"idle", "L71", "aborted"}

\* The kernel's last answer to thread t was an EINTR or an EAGAIN.
Interrupted(t) == t \in threads /\ hist[t].last[1] = "intr"

\* C15: where EINTR and EAGAIN come only finitely many times in a row, every
\* call with n in 0..256 returns true or false, also where getrandom or read
\* answers, without an error, that it delivered 0 bytes.
C15_Terminates ==
    \A t \in 1..NThreads :
        []<>(~Interrupted(t)) => (Filling(t) ~> (t \in threads /\ Returned(t)))

\* C16: a call that returns true leaves errno as it was when the call began,
\* whichever strategy delivered the bytes and whatever failed before it; a
\* failure of getentropy_urandom or of getentropy_sysctl leaves errno = EIO.
C16_ErrnoFrame ==
    \A t \in threads :
        /\ (Returned(t) /\ result[t] = "true") => errno[t] = hist[t].errno0
        /\ pc[t] = "L104" => errno[t] = EIO
        /\ (Returned(t) /\ result[t] = "false" /\ hist[t].bFail # "none") =>
              errno[t] = EIO

====
